---- MODULE Spec2Model ----
(***************************************************************************)
(* Host-side driver of the BLS12-381 pairing engine (src/src/main.rs).     *)
(*                                                                         *)
(* The linear memory is a byte array of MemorySize bytes.  It is kept as   *)
(* the function of its non-zero bytes (a WebAssembly memory starts zeroed),*)
(* so two memories are equal exactly when they hold the same bytes.        *)
(* A BigUint is kept as its little-endian base-256 digits without trailing *)
(* zero digits (the number 0 is <<>>); two BigUints are equal exactly when *)
(* these sequences are equal.                                              *)
(***************************************************************************)
EXTENDS Integers, Sequences, FiniteSets, TLC

\* ------------------------------------------------------------ constants
P_G1 == 42104
P_G2 == 42392
n8q == 48
MemoryPages == 30
PageBytes == 65536
MemorySize == MemoryPages * PageBytes

\* Bytes of a group-1 point (3 slots), a group-2 point (6 slots), an
\* extension element (12 slots).
G1Bytes == 3 * n8q
G2Bytes == 6 * n8q
F12Bytes == 12 * n8q

\* ------------------------------------------------------------ bounds
MaxCalls == 2
MaxSeed == 2
MaxDigits == 2

\* ------------------------------------------------------------ memory
Read(m, a) == IF a \in DOMAIN m THEN m[a] ELSE 0

Bytes(m, start, n) == [i \in 1..n |-> Read(m, start + i - 1)]

\* m with the bytes bs written at start .. start + Len(bs) - 1
Write(m, start, bs) ==
    LET span == start .. (start + Len(bs) - 1)
        val(a) == IF a \in span THEN bs[a - start + 1] ELSE m[a]
        dom == {a \in (DOMAIN m) \cup span : val(a) # 0}
    IN  [a \in dom |-> val(a)]

\* memory.data(&store).to_vec(): the whole memory, copied
Snapshot(m) == [len |-> MemorySize, bytes |-> m]

\* ------------------------------------------------------------ byte codec
RECURSIVE Normalize(_)
Normalize(ds) ==
    IF Len(ds) > 0 /\ ds[Len(ds)] = 0
    THEN Normalize(SubSeq(ds, 1, Len(ds) - 1))
    ELSE ds

\* BigUint::from_bytes_le
from_le(vec) == Normalize(vec)

\* ds * k + carry on base-256 digits
RECURSIVE MulAdd(_, _, _)
MulAdd(ds, k, carry) ==
    IF Len(ds) = 0
    THEN (IF carry = 0 THEN <<>> ELSE <<carry % 256>> \o MulAdd(<<>>, k, carry \div 256))
    ELSE LET t == ds[1] * k + carry
         IN  <<t % 256>> \o MulAdd(Tail(ds), k, t \div 256)

\* the value of at most ChunkDigits decimal digits, most significant first
ChunkDigits == 6

RECURSIVE Small(_)
Small(digits) ==
    IF Len(digits) = 0 THEN 0
    ELSE 10 * Small(SubSeq(digits, 1, Len(digits) - 1)) + digits[Len(digits)]

RECURSIVE Pow10(_)
Pow10(n) == IF n = 0 THEN 1 ELSE 10 * Pow10(n - 1)

\* str.parse::<BigUint>() of a string of decimal digits, most significant
\* first, taken ChunkDigits digits at a time: the value so far times
\* 10^(digits of the chunk) plus the chunk
parse(str) ==
    LET n == Len(str)
        chunks == (n + ChunkDigits - 1) \div ChunkDigits
        head == n - ChunkDigits * (chunks - 1)
        upto(c) == IF c = 0 THEN 0 ELSE head + ChunkDigits * (c - 1)
        value[c \in 0..chunks] ==
            IF c = 0 THEN <<>>
            ELSE LET chunk == SubSeq(str, upto(c - 1) + 1, upto(c))
                 IN  Normalize(MulAdd(value[c - 1], Pow10(Len(chunk)), Small(chunk)))
    IN  value[chunks]

\* BigUint::to_bytes_le: the digits, and the single byte 0 for zero
to_bytes_le(v) == IF Len(v) = 0 THEN <<0>> ELSE v

\* to_le panics (unwrap) on a string that does not parse: the empty string
to_le_panics(str) == Len(str) = 0

to_le(str) == to_bytes_le(parse(str))

\* ------------------------------------------------------------ state
VARIABLES
    env,      \* what the run is given: the engine image, the file system, the build
    status,   \* "start", "running", "error" (from_file returned Err), "panicked", "passed"
    mem,      \* WasmInstance.memory: the linear memory's bytes
    log,      \* the calls made on the engine and the memory snapshots taken, in order
    last,     \* the last operation the caller invoked, with its arguments
    ret,      \* what that operation returned
    calls,    \* number of operations the caller has invoked
    prog,     \* the entry point that runs: "api", "main", "paring_is_unitary", "codec"
    pc,       \* the line the entry point is at
    p, q, r,  \* locals of paring_is_unitary
    result, result_montgomery,  \* locals of main
    str, buf, val  \* the byte codec's input string, encoded buffer, decoded integer

vars == <<env, status, mem, log, last, ret, calls, prog, pc, p, q, r,
          result, result_montgomery, str, buf, val>>

Exports == {"ftm_toMontgomery", "ftm_fromMontgomery", "bls12381_pairing",
            "g1m_neg", "g2m_neg", "ftm_conjugate"}

\* ------------------------------------------------------------ the engine
\* The engine binary is outside the sources.  It is modelled by its calling
\* contract: each operation reads its operand elements and writes only its
\* destination element; the two domain conversions are mutually inverse; the
\* pairing e satisfies e(-P,Q) = e(P,-Q) = conjugate(e(P,Q)).  An engine of
\* the family is fixed by the units env.R (domain conversion) and env.K
\* (pairing) of the byte ring Z/256.
Inv256(u) == CHOOSE x \in 0..255 : (u * x) % 256 = 1

NegByte(b) == (256 - b) % 256

\* slot (0-based) of the i-th byte (1-based) of an element
SlotOf(i) == (i - 1) \div n8q

\* the i-th byte of 0-based slot s of the element bs
SlotByte(bs, s, i) == bs[s * n8q + i]

toMontgomeryBytes(bs) == [i \in 1..Len(bs) |-> (bs[i] * env.R) % 256]

fromMontgomeryBytes(bs) ==
    LET ri == Inv256(env.R)
    IN  [i \in 1..Len(bs) |-> (bs[i] * ri) % 256]

\* -(x, y, z) = (x, -y, z)
g1NegBytes(bs) == [i \in 1..Len(bs) |-> IF SlotOf(i) = 1 THEN NegByte(bs[i]) ELSE bs[i]]

\* -(x, y, z) = (x, -y, z), each coordinate two slots
g2NegBytes(bs) == [i \in 1..Len(bs) |-> IF SlotOf(i) \in {2, 3} THEN NegByte(bs[i]) ELSE bs[i]]

\* conjugate(c0 + c1 w) = c0 - c1 w, each half six slots
conjugateBytes(bs) == [i \in 1..Len(bs) |-> IF SlotOf(i) >= 6 THEN NegByte(bs[i]) ELSE bs[i]]

\* e(P, Q): the first half even, the second half odd in the y coordinates
EvenSlotOfG2(s) == IF s % 3 = 2 THEN 4 + (s % 2) ELSE s % 2

pairingBytes(g1, g2) ==
    [i \in 1..F12Bytes |->
        LET s == SlotOf(i)
            j == i - s * n8q
        IN  IF s < 6
            THEN ((env.K * SlotByte(g1, 0, j) * SlotByte(g2, EvenSlotOfG2(s), j))
                   + SlotByte(g1, 2, j) + s) % 256
            ELSE (env.K * (s - 5) * SlotByte(g1, 1, j) * SlotByte(g2, 2 + (s % 2), j)) % 256]

\* The bytes the engine image's data segments place at the generators
GeneratorByte(seed, a) == (a * (2 * seed + 1) + 7 * seed + 1) % 256

InitialMemory(seed) ==
    LET span == (P_G1 .. (P_G1 + G1Bytes - 1)) \cup (P_G2 .. (P_G2 + G2Bytes - 1))
    IN  [a \in {x \in span : GeneratorByte(seed, x) # 0} |-> GeneratorByte(seed, a)]

\* An i32 offset is an unsigned 32-bit address to the engine: a region is
\* inside the memory when it starts at a non-negative offset and ends in it.
InMemory(off, n) == off >= 0 /\ off + n <= MemorySize

\* the regions an exported operation reads and writes: <<offset, bytes>>
EngineReads(name, args) ==
    CASE name = "bls12381_pairing" -> {<<args[1], G1Bytes>>, <<args[2], G2Bytes>>}
      [] name = "g1m_neg" -> {<<args[1], G1Bytes>>}
      [] name = "g2m_neg" -> {<<args[1], G2Bytes>>}
      [] OTHER -> {<<args[1], F12Bytes>>}

EngineWrites(name, args) ==
    CASE name = "bls12381_pairing" -> <<args[3], F12Bytes>>
      [] name = "g1m_neg" -> <<args[2], G1Bytes>>
      [] name = "g2m_neg" -> <<args[2], G2Bytes>>
      [] OTHER -> <<args[2], F12Bytes>>

EngineTraps(name, args) ==
    \E reg \in EngineReads(name, args) \cup {EngineWrites(name, args)} :
        ~InMemory(reg[1], reg[2])

EngineEffect(name, m, args) ==
    CASE name = "bls12381_pairing" ->
            Write(m, args[3], pairingBytes(Bytes(m, args[1], G1Bytes), Bytes(m, args[2], G2Bytes)))
      [] name = "g1m_neg" -> Write(m, args[2], g1NegBytes(Bytes(m, args[1], G1Bytes)))
      [] name = "g2m_neg" -> Write(m, args[2], g2NegBytes(Bytes(m, args[1], G2Bytes)))
      [] name = "ftm_conjugate" -> Write(m, args[2], conjugateBytes(Bytes(m, args[1], F12Bytes)))
      [] name = "ftm_toMontgomery" -> Write(m, args[2], toMontgomeryBytes(Bytes(m, args[1], F12Bytes)))
      [] name = "ftm_fromMontgomery" -> Write(m, args[2], fromMontgomeryBytes(Bytes(m, args[1], F12Bytes)))

\* ------------------------------------------------------------ WasmInstance
\* A method takes the instance s = [mem, log, status, ret] and gives the
\* instance after it.  A panic ends the run: status "panicked", no value.
None == <<>>

Panicked(s) == [s EXCEPT !.status = "panicked", !.ret = None]

\* get_export(name).and_then(into_func).ok_or_else(..).unwrap().typed(..).unwrap()
\*     .call(store, args).unwrap()
CallExport(s, name, args) ==
    IF name \notin env.exports THEN Panicked(s)
    ELSE LET called == [s EXCEPT !.log = Append(s.log, <<name, args>>)]
         IN  IF EngineTraps(name, args) THEN Panicked(called)
             ELSE [called EXCEPT !.mem = EngineEffect(name, s.mem, args), !.ret = None]

from_montgomery(s, from, to) == CallExport(s, "ftm_fromMontgomery", <<from, to>>)

\* (mutation) the wrapper copied from from_montgomery with the name left as it was
to_montgomery_calls_from(s, from, to) == CallExport(s, "ftm_fromMontgomery", <<from, to>>)

to_montgomery(s, from, to) == CallExport(s, "ftm_toMontgomery", <<from, to>>)

compute_pairing(s, p_g1, p_g2, p_res) == CallExport(s, "bls12381_pairing", <<p_g1, p_g2, p_res>>)

g1m_neg(s, from, to) == CallExport(s, "g1m_neg", <<from, to>>)

ftm_conjugate(s, from, to) == CallExport(s, "ftm_conjugate", <<from, to>>)

g2m_neg(s, from, to) == CallExport(s, "g2m_neg", <<from, to>>)

\* `x as usize` of an i32 on a 64-bit target: a negative x becomes 2^64 + x,
\* which is kept as the negative number x (above every memory size).
as_usize(x) == x

\* (mutation) the slice's end is not checked against data.len()
slice_in_range_unchecked_end(start, data, pos) ==
    LET lo == start + pos * n8q
        hi == start + (pos + 1) * n8q
    IN  0 <= lo /\ lo <= hi

\* data[(start + pos * n8q)..(start + (pos + 1) * n8q)] does not panic: the
\* additions do not overflow (a build with overflow checks panics; one without
\* wraps to the small sum), and 0 <= lower <= upper <= data.len().
slice_in_range(start, data, pos) ==
    LET lo == start + pos * n8q
        hi == start + (pos + 1) * n8q
        overflows == start < 0 /\ hi >= 0
    IN  /\ ~(env.overflow_checks /\ overflows)
        /\ 0 <= lo
        /\ lo <= hi
        /\ hi <= data.len

\* (mutation) the slot after the one asked for
shift_next_slot(start, data, pos) == Bytes(data.bytes, start + (pos + 1) * n8q, n8q)

shift(start, data, pos) == Bytes(data.bytes, start + pos * n8q, n8q)

\* (mutation) the snapshot is taken after the element is converted back
get_f12_snapshot_after_restore(s, p_f12, in_montgomery) ==
    LET s1 == IF ~in_montgomery THEN from_montgomery(s, p_f12, p_f12) ELSE s
    IN  IF s1.status = "panicked" THEN s1
        ELSE
        LET s1r == IF ~in_montgomery THEN to_montgomery(s1, p_f12, p_f12) ELSE s1
            data == Snapshot(s1r.mem)
            s2 == [s1r EXCEPT !.log = Append(s1r.log, <<"memory.data", <<>>>>)]
            u == as_usize(p_f12)
        IN  IF s2.status = "panicked" THEN s2
            ELSE IF \E pos \in 0..11 : ~slice_in_range(u, data, pos) THEN Panicked(s2)
            ELSE [s2 EXCEPT !.ret =
                    << << << from_le(shift(u, data, 0)), from_le(shift(u, data, 1)) >>,
                          << from_le(shift(u, data, 2)), from_le(shift(u, data, 3)) >>,
                          << from_le(shift(u, data, 4)), from_le(shift(u, data, 5)) >> >>,
                       << << from_le(shift(u, data, 6)), from_le(shift(u, data, 7)) >>,
                          << from_le(shift(u, data, 8)), from_le(shift(u, data, 9)) >>,
                          << from_le(shift(u, data, 10)), from_le(shift(u, data, 11)) >> >> >>]

\* fn get_f12(&mut self, p_f12: i32, in_montgomery: bool)
get_f12(s, p_f12, in_montgomery) ==
    LET s1 == IF ~in_montgomery THEN from_montgomery(s, p_f12, p_f12) ELSE s
    IN  IF s1.status = "panicked" THEN s1
        ELSE
        LET data == Snapshot(s1.mem)
            s1d == [s1 EXCEPT !.log = Append(s1.log, <<"memory.data", <<>>>>)]
            s2 == IF ~in_montgomery THEN to_montgomery(s1d, p_f12, p_f12) ELSE s1d
            u == as_usize(p_f12)
        IN  IF s2.status = "panicked" THEN s2
            ELSE IF \E pos \in 0..11 : ~slice_in_range(u, data, pos) THEN Panicked(s2)
            ELSE [s2 EXCEPT !.ret =
                    << << << from_le(shift(u, data, 0)), from_le(shift(u, data, 1)) >>,
                          << from_le(shift(u, data, 2)), from_le(shift(u, data, 3)) >>,
                          << from_le(shift(u, data, 4)), from_le(shift(u, data, 5)) >> >>,
                       << << from_le(shift(u, data, 6)), from_le(shift(u, data, 7)) >>,
                          << from_le(shift(u, data, 8)), from_le(shift(u, data, 9)) >>,
                          << from_le(shift(u, data, 10)), from_le(shift(u, data, 11)) >> >> >>]

\* fn g1(&self) -> [Vec<u8>; 3]
g1(s) ==
    LET data == Snapshot(s.mem)
        sd == [s EXCEPT !.log = Append(s.log, <<"memory.data", <<>>>>)]
        u == as_usize(P_G1)
    IN  IF \E pos \in 0..2 : ~slice_in_range(u, data, pos) THEN Panicked(sd)
        ELSE [sd EXCEPT !.ret = << shift(u, data, 0), shift(u, data, 1), shift(u, data, 2) >>]

\* (mutation) coordinate c holding slots c and c + 3
g2_transposed(s) ==
    LET p_g2 == as_usize(P_G2)
        data == Snapshot(s.mem)
        sd == [s EXCEPT !.log = Append(s.log, <<"memory.data", <<>>>>)]
    IN  IF \E pos \in 0..5 : ~slice_in_range(p_g2, data, pos) THEN Panicked(sd)
        ELSE [sd EXCEPT !.ret =
                << << << shift(p_g2, data, 0), shift(p_g2, data, 3) >> >>,
                   << << shift(p_g2, data, 1), shift(p_g2, data, 4) >> >>,
                   << << shift(p_g2, data, 2), shift(p_g2, data, 5) >> >> >>]

\* fn g2(&self) -> [[[Vec<u8>; 2]; 1]; 3]
g2(s) ==
    LET p_g2 == as_usize(P_G2)
        data == Snapshot(s.mem)
        sd == [s EXCEPT !.log = Append(s.log, <<"memory.data", <<>>>>)]
    IN  IF \E pos \in 0..5 : ~slice_in_range(p_g2, data, pos) THEN Panicked(sd)
        ELSE [sd EXCEPT !.ret =
                << << << shift(p_g2, data, 0), shift(p_g2, data, 1) >> >>,
                   << << shift(p_g2, data, 2), shift(p_g2, data, 3) >> >>,
                   << << shift(p_g2, data, 4), shift(p_g2, data, 5) >> >> >>]

\* fn from_file(path) -> Result<Self>: the file is read with unwrap (a panic
\* when unreadable); Module::new, Memory::new, linker.define, instantiate and
\* start return their error with `?`; no export is looked up.
from_file(e) ==
    LET fresh == [mem |-> InitialMemory(e.seed), log |-> <<>>, status |-> "running", ret |-> None]
    IN  IF ~e.readable THEN [fresh EXCEPT !.mem = <<>>, !.status = "panicked"]
        ELSE IF ~e.wellformed \/ ~e.memory_ok \/ ~e.link_ok
             THEN [fresh EXCEPT !.mem = <<>>, !.status = "error"]
        ELSE fresh

\* ------------------------------------------------------------ environments
Units == {3, 5}

GoodEnv ==
    [readable |-> TRUE, wellformed |-> TRUE, memory_ok |-> TRUE, link_ok |-> TRUE,
     exports |-> Exports, seed |-> 1, R |-> 3, K |-> 1, overflow_checks |-> TRUE]

\* loadable images: every engine of the family
RunEnvs ==
    {[GoodEnv EXCEPT !.seed = sd, !.R = rr, !.K = kk] :
        sd \in 0..MaxSeed, rr \in Units \cup {1}, kk \in Units \cup {1}}

\* what from_file can be given: a good image under either build, an unreadable
\* file, a malformed image, a memory or link failure, an image lacking one export
ApiEnvs ==
    {GoodEnv, [GoodEnv EXCEPT !.seed = MaxSeed, !.overflow_checks = FALSE]}
    \cup {[GoodEnv EXCEPT !.readable = FALSE], [GoodEnv EXCEPT !.wellformed = FALSE],
          [GoodEnv EXCEPT !.memory_ok = FALSE], [GoodEnv EXCEPT !.link_ok = FALSE]}
    \cup {[GoodEnv EXCEPT !.exports = Exports \ {x}] : x \in Exports}

\* ------------------------------------------------------------ actions
Cur == [mem |-> mem, log |-> log, status |-> status, ret |-> ret]

Becomes(s) ==
    /\ mem' = s.mem
    /\ log' = s.log
    /\ status' = s.status
    /\ ret' = s.ret

\* scratch offsets of paring_is_unitary and of main
p_n_g1 == 125000
p_n_g2 == 126000
p_p == 127000
\* (mutation) a result offset inside the element at p_p
p_q_overlapping == p_p + 500
p_q == 128000
p_r == 129000
p_result == 127000

\* offsets a caller passes to get_f12: the generators, a result, the last
\* offset that fits, the first that does not, one less than a slot from the
\* end, and a negative one
ReadOffsets ==
    {P_G1, p_p, MemorySize - F12Bytes, MemorySize - F12Bytes + 1, MemorySize - n8q + 1, -n8q}

ConvOffsets == {P_G1, p_p}

ApiCall(name, args, s) ==
    /\ prog = "api"
    /\ status = "running"
    /\ calls < MaxCalls
    /\ Becomes(s)
    /\ last' = <<name, args>>
    /\ calls' = calls + 1
    /\ UNCHANGED <<env, prog, pc, p, q, r, result, result_montgomery, str, buf, val>>

FromFile ==
    /\ prog = "api"
    /\ status = "start"
    /\ Becomes(from_file(env))
    /\ last' = <<"from_file", <<>>>>
    /\ UNCHANGED <<env, calls, prog, pc, p, q, r, result, result_montgomery, str, buf, val>>

Do_from_montgomery ==
    \E o \in ConvOffsets : ApiCall("from_montgomery", <<o, o>>, from_montgomery(Cur, o, o))

Do_to_montgomery ==
    \E o \in ConvOffsets : ApiCall("to_montgomery", <<o, o>>, to_montgomery(Cur, o, o))

Do_compute_pairing ==
    \E g \in {P_G1, p_n_g1} :
        ApiCall("compute_pairing", <<g, P_G2, p_p>>, compute_pairing(Cur, g, P_G2, p_p))

Do_g1m_neg == ApiCall("g1m_neg", <<P_G1, p_n_g1>>, g1m_neg(Cur, P_G1, p_n_g1))

Do_g2m_neg == ApiCall("g2m_neg", <<P_G2, p_n_g2>>, g2m_neg(Cur, P_G2, p_n_g2))

Do_ftm_conjugate == ApiCall("ftm_conjugate", <<p_p, p_p>>, ftm_conjugate(Cur, p_p, p_p))

Do_get_f12 ==
    \E o \in ReadOffsets, f \in BOOLEAN : ApiCall("get_f12", <<o, f>>, get_f12(Cur, o, f))

Do_g1 == ApiCall("g1", <<>>, g1(Cur))

Do_g2 == ApiCall("g2", <<>>, g2(Cur))

Init ==
    /\ env \in ApiEnvs
    /\ status = "start"
    /\ mem = <<>>
    /\ log = <<>>
    /\ last = <<"none", <<>>>>
    /\ ret = None
    /\ calls = 0
    /\ prog = "api"
    /\ pc = 0
    /\ p = None /\ q = None /\ r = None
    /\ result = None /\ result_montgomery = None
    /\ str = <<>> /\ buf = <<>> /\ val = <<>>

Next ==
    \/ FromFile
    \/ Do_from_montgomery
    \/ Do_to_montgomery
    \/ Do_compute_pairing
    \/ Do_g1m_neg
    \/ Do_g2m_neg
    \/ Do_ftm_conjugate
    \/ Do_get_f12
    \/ Do_g1
    \/ Do_g2

Spec == Init /\ [][Next]_vars

\* ------------------------------------------------------------ main and the test
\* One line of an entry point: the instance becomes s, control moves on.
Line(entry, line, next, name, args, s) ==
    /\ prog = entry
    /\ pc = line
    /\ status = "running"
    /\ Becomes(s)
    /\ last' = <<name, args>>
    /\ pc' = IF s.status = "panicked" THEN line ELSE next
    /\ calls' = calls + 1
    /\ UNCHANGED <<env, prog, str, buf, val>>

Test == "paring_is_unitary"

Test_g1m_neg ==
    /\ Line(Test, 218, 219, "g1m_neg", <<P_G1, p_n_g1>>, g1m_neg(Cur, P_G1, p_n_g1))
    /\ UNCHANGED <<p, q, r, result, result_montgomery>>

Test_g2m_neg ==
    /\ Line(Test, 219, 220, "g2m_neg", <<P_G2, p_n_g2>>, g2m_neg(Cur, P_G2, p_n_g2))
    /\ UNCHANGED <<p, q, r, result, result_montgomery>>

Test_compute_pairing_p ==
    /\ Line(Test, 220, 221, "compute_pairing", <<P_G1, P_G2, p_p>>,
            compute_pairing(Cur, P_G1, P_G2, p_p))
    /\ UNCHANGED <<p, q, r, result, result_montgomery>>

\* (mutation) line 221 left out
Test_ftm_conjugate_skipped ==
    /\ Line(Test, 221, 222, "ftm_conjugate", <<p_p, p_p>>, [Cur EXCEPT !.ret = None])
    /\ UNCHANGED <<p, q, r, result, result_montgomery>>

Test_ftm_conjugate ==
    /\ Line(Test, 221, 222, "ftm_conjugate", <<p_p, p_p>>, ftm_conjugate(Cur, p_p, p_p))
    /\ UNCHANGED <<p, q, r, result, result_montgomery>>

Test_compute_pairing_q ==
    /\ Line(Test, 222, 223, "compute_pairing", <<p_n_g1, P_G2, p_q>>,
            compute_pairing(Cur, p_n_g1, P_G2, p_q))
    /\ UNCHANGED <<p, q, r, result, result_montgomery>>

\* (mutation) the third pairing's result written to the second pairing's offset
Test_compute_pairing_r_into_q ==
    /\ Line(Test, 223, 224, "compute_pairing", <<P_G1, p_n_g2, p_q>>,
            compute_pairing(Cur, P_G1, p_n_g2, p_q))
    /\ UNCHANGED <<p, q, r, result, result_montgomery>>

Test_compute_pairing_r ==
    /\ Line(Test, 223, 224, "compute_pairing", <<P_G1, p_n_g2, p_r>>,
            compute_pairing(Cur, P_G1, p_n_g2, p_r))
    /\ UNCHANGED <<p, q, r, result, result_montgomery>>

Test_get_p ==
    /\ Line(Test, 224, 225, "get_f12", <<p_p, FALSE>>, get_f12(Cur, p_p, FALSE))
    /\ p' = ret'
    /\ UNCHANGED <<q, r, result, result_montgomery>>

Test_get_q ==
    /\ Line(Test, 225, 226, "get_f12", <<p_q, FALSE>>, get_f12(Cur, p_q, FALSE))
    /\ q' = ret'
    /\ UNCHANGED <<p, r, result, result_montgomery>>

Test_get_r ==
    /\ Line(Test, 226, 227, "get_f12", <<p_r, FALSE>>, get_f12(Cur, p_r, FALSE))
    /\ r' = ret'
    /\ UNCHANGED <<p, q, result, result_montgomery>>

\* assert_eq!(p, q); assert_eq!(q, r);
Test_assert ==
    /\ Line(Test, 227, 229, "assert_eq", <<>>,
            [Cur EXCEPT !.status = IF p = q /\ q = r THEN "passed" ELSE "panicked",
                        !.ret = None])
    /\ UNCHANGED <<p, q, r, result, result_montgomery>>

Main_compute_pairing ==
    /\ Line("main", 194, 195, "compute_pairing", <<P_G1, P_G2, p_result>>,
            compute_pairing(Cur, P_G1, P_G2, p_result))
    /\ UNCHANGED <<p, q, r, result, result_montgomery>>

Main_get_f12 ==
    /\ Line("main", 195, 197, "get_f12", <<p_result, FALSE>>, get_f12(Cur, p_result, FALSE))
    /\ result' = ret'
    /\ UNCHANGED <<p, q, r, result_montgomery>>

Main_get_f12_montgomery ==
    /\ Line("main", 197, 199, "get_f12", <<p_result, TRUE>>, get_f12(Cur, p_result, TRUE))
    /\ result_montgomery' = ret'
    /\ UNCHANGED <<p, q, r, result>>

Main_return ==
    /\ Line("main", 199, 200, "return", <<>>, [Cur EXCEPT !.status = "passed", !.ret = None])
    /\ UNCHANGED <<p, q, r, result, result_montgomery>>

\* After WasmInstance::from_file("bls12381.wasm") has returned Ok.
InitRun ==
    /\ env \in RunEnvs
    /\ prog \in {"main", Test}
    /\ status = "running"
    /\ mem = from_file(env).mem
    /\ log = <<>>
    /\ last = <<"from_file", <<>>>>
    /\ ret = None
    /\ calls = 0
    /\ pc = IF prog = "main" THEN 194 ELSE 218
    /\ p = None /\ q = None /\ r = None
    /\ result = None /\ result_montgomery = None
    /\ str = <<>> /\ buf = <<>> /\ val = <<>>

NextRun ==
    \/ Test_g1m_neg
    \/ Test_g2m_neg
    \/ Test_compute_pairing_p
    \/ Test_ftm_conjugate
    \/ Test_compute_pairing_q
    \/ Test_compute_pairing_r
    \/ Test_get_p
    \/ Test_get_q
    \/ Test_get_r
    \/ Test_assert
    \/ Main_compute_pairing
    \/ Main_get_f12
    \/ Main_get_f12_montgomery
    \/ Main_return

SpecRun == InitRun /\ [][NextRun]_vars

\* ------------------------------------------------------------ the codec's runs
\* decimal strings: every string of at most MaxDigits digits (the empty one
\* too), and the numbers 256^47, 2^384 - 1 and 2^384
RECURSIVE DigitStrings(_)
DigitStrings(n) ==
    IF n = 0 THEN {<<>>}
    ELSE LET shorter == DigitStrings(n - 1)
         IN  shorter \cup {Append(s, d) : s \in shorter, d \in 0..9}

Pow256_47 ==
    <<1, 5, 3, 9, 1, 4, 0, 8, 6, 7, 0, 4, 6, 6, 5, 9, 3, 4, 4, 2, 2, 9, 6,
    5, 0, 0, 0, 3, 9, 1, 1, 8, 5, 9, 9, 1, 4, 2, 6, 0, 9, 2, 7, 3, 1, 5,
    2, 5, 2, 5, 5, 6, 5, 1, 0, 4, 6, 6, 7, 3, 0, 2, 1, 1, 1, 0, 3, 3, 4,
    8, 5, 0, 6, 6, 9, 9, 1, 0, 9, 7, 8, 9, 5, 0, 8, 3, 6, 9, 7, 7, 5, 5,
    8, 1, 4, 4, 2, 0, 1, 7, 2, 1, 9, 0, 0, 8, 9, 0, 5, 8, 7, 1, 3, 6>>

Pow2_384_minus_1 ==
    <<3, 9, 4, 0, 2, 0, 0, 6, 1, 9, 6, 3, 9, 4, 4, 7, 9, 2, 1, 2, 2, 7, 9,
    0, 4, 0, 1, 0, 0, 1, 4, 3, 6, 1, 3, 8, 0, 5, 0, 7, 9, 7, 3, 9, 2, 7,
    0, 4, 6, 5, 4, 4, 6, 6, 6, 7, 9, 4, 8, 2, 9, 3, 4, 0, 4, 2, 4, 5, 7,
    2, 1, 7, 7, 1, 4, 9, 7, 2, 1, 0, 6, 1, 1, 4, 1, 4, 2, 6, 6, 2, 5, 4,
    8, 8, 4, 9, 1, 5, 6, 4, 0, 8, 0, 6, 6, 2, 7, 9, 9, 0, 3, 0, 6, 8, 1,
    5>>

Pow2_384 ==
    <<3, 9, 4, 0, 2, 0, 0, 6, 1, 9, 6, 3, 9, 4, 4, 7, 9, 2, 1, 2, 2, 7, 9,
    0, 4, 0, 1, 0, 0, 1, 4, 3, 6, 1, 3, 8, 0, 5, 0, 7, 9, 7, 3, 9, 2, 7,
    0, 4, 6, 5, 4, 4, 6, 6, 6, 7, 9, 4, 8, 2, 9, 3, 4, 0, 4, 2, 4, 5, 7,
    2, 1, 7, 7, 1, 4, 9, 7, 2, 1, 0, 6, 1, 1, 4, 1, 4, 2, 6, 6, 2, 5, 4,
    8, 8, 4, 9, 1, 5, 6, 4, 0, 8, 0, 6, 6, 2, 7, 9, 9, 0, 3, 0, 6, 8, 1,
    6>>

CodecInputs == DigitStrings(MaxDigits) \cup {Pow256_47, Pow2_384_minus_1, Pow2_384}

Codec_to_le ==
    /\ prog = "codec"
    /\ pc = 184
    /\ status = "running"
    /\ IF to_le_panics(str)
       THEN status' = "panicked" /\ UNCHANGED <<buf, pc>>
       ELSE buf' = to_le(str) /\ pc' = 188 /\ UNCHANGED status
    /\ last' = <<"to_le", <<>>>>
    /\ UNCHANGED <<env, mem, log, ret, calls, prog, p, q, r, result, result_montgomery, str, val>>

Codec_from_le ==
    /\ prog = "codec"
    /\ pc = 188
    /\ status = "running"
    /\ val' = from_le(buf)
    /\ pc' = 189
    /\ status' = "passed"
    /\ last' = <<"from_le", <<>>>>
    /\ UNCHANGED <<env, mem, log, ret, calls, prog, p, q, r, result, result_montgomery, str, buf>>

InitCodec ==
    /\ env = GoodEnv
    /\ prog = "codec"
    /\ status = "running"
    /\ str \in CodecInputs
    /\ pc = 184
    /\ mem = <<>>
    /\ log = <<>>
    /\ last = <<"none", <<>>>>
    /\ ret = None
    /\ calls = 0
    /\ p = None /\ q = None /\ r = None
    /\ result = None /\ result_montgomery = None
    /\ buf = <<>> /\ val = <<>>

NextCodec == Codec_to_le \/ Codec_from_le

SpecCodec == InitCodec /\ [][NextCodec]_vars

\* ============================================================ properties
\* What the caller passed to the last operation.
LastOp == last[1]
LastArgs == last[2]

\* The integer held in 0-based slot n of the element at offset o of memory m.
SlotValue(m, o, n) == from_le(Bytes(m, o + n * n8q, n8q))

\* The 2x3x2 grid whose entry [i][j][k] is slot 6i + 2j + k (0-based i, j, k).
ExpectedGrid(m, o) ==
    [i \in 1..2 |-> [j \in 1..3 |-> [k \in 1..2 |->
        SlotValue(m, o, 6 * (i - 1) + 2 * (j - 1) + (k - 1))]]]

\* The 12 slots at o fit in the memory.
F12InRange(o) == o >= 0 /\ o + F12Bytes <= MemorySize

IsEngineCall(entry) == entry[1] \in Exports

EngineCalls(l) == SelectSeq(l, IsEngineCall)

Overlap(a, b) == a[1] < b[1] + b[2] /\ b[1] < a[1] + a[2]

\* ------------------------------------------------------------ C1
\* C1: paring_is_unitary ends with the three decoded grids equal: the
\* conjugated pairing(P,Q), pairing(-P,Q) and pairing(P,-Q); no step of it
\* panics and both assertions pass.
C1_UnitaryGridsEqual ==
    prog = Test =>
        /\ status # "panicked"
        /\ pc \in {227, 229} => (p # None /\ p = q /\ q = r)
        /\ pc = 229 => status = "passed"

C1_Witness ==
    /\ prog = Test
    /\ pc = 229
    /\ status = "passed"
    /\ p = q /\ q = r
    /\ \A standard \in {EngineEffect("ftm_fromMontgomery", mem, <<p_q, p_q>>)} :
           p = ExpectedGrid(standard, p_q)
    /\ p # ExpectedGrid(mem, p_q)

\* ------------------------------------------------------------ C2
\* C2: when get_f12(o, flag) returns, the 12 slots (576 bytes) at o hold the
\* bytes they held before the call, for either flag; so they do after any
\* number of consecutive calls.
C2_GetF12PreservesBytes ==
    [][(LastOp' = "get_f12" /\ status' = "running") =>
         Bytes(mem', LastArgs'[1], F12Bytes) = Bytes(mem, LastArgs'[1], F12Bytes)]_vars

DataEvent == <<"memory.data", <<>>>>

BridgeEvents(o) ==
    << <<"ftm_fromMontgomery", <<o, o>>>>, DataEvent, <<"ftm_toMontgomery", <<o, o>>>> >>

\* two consecutive converting reads of the generators' bytes, which the
\* conversion changes
C2_Witness ==
    /\ LastOp = "get_f12"
    /\ status = "running"
    /\ LastArgs = <<P_G1, FALSE>>
    /\ log = BridgeEvents(P_G1) \o BridgeEvents(P_G1)
    /\ mem = InitialMemory(env.seed)
    /\ fromMontgomeryBytes(Bytes(mem, P_G1, F12Bytes)) # Bytes(mem, P_G1, F12Bytes)

\* ------------------------------------------------------------ C3
\* C3: get_f12(o, false) calls from_montgomery(o, o), then takes the snapshot,
\* then calls to_montgomery(o, o), and returns the grid decoded from the
\* snapshot's standard-domain bytes; get_f12(o, true) makes no engine call,
\* leaves the memory as it is and returns the grid of the stored bytes.
C3_BridgeOrder ==
    [][(LastOp' = "get_f12" /\ status' = "running") =>
         \A o \in {LastArgs'[1]} :
             IF LastArgs'[2]
             THEN /\ log' = Append(log, DataEvent)
                  /\ mem' = mem
                  /\ ret' = ExpectedGrid(mem, o)
             ELSE /\ log' = log \o BridgeEvents(o)
                  /\ \A standard \in {EngineEffect("ftm_fromMontgomery", mem, <<o, o>>)} :
                         ret' = ExpectedGrid(standard, o)]_vars

\* a converting read whose result is not the grid of the restored memory
C3_Witness ==
    /\ LastOp = "get_f12"
    /\ status = "running"
    /\ LastArgs[2] = FALSE
    /\ ret # None
    /\ ret # ExpectedGrid(mem, LastArgs[1])
    /\ \A standard \in {EngineEffect("ftm_fromMontgomery", mem, <<LastArgs[1], LastArgs[1]>>)} :
           ret = ExpectedGrid(standard, LastArgs[1])

\* ------------------------------------------------------------ C5
\* The memory as get_f12 snapshots it.
SnapshotBytes(m, o, in_montgomery) ==
    IF in_montgomery THEN m ELSE EngineEffect("ftm_fromMontgomery", m, <<o, o>>)

\* C5: the grid get_f12(o, flag) returns has at [i][j][k] the little-endian
\* integer of the 48 bytes at o + (6i + 2j + k) * 48 of the snapshot; the 12
\* entries are the slots 0..11, each once; shift(start, data, pos) is the
\* bytes start + pos*48 .. start + (pos+1)*48 - 1.
C5_GridLayout ==
    [][(LastOp' = "get_f12" /\ status' = "running") =>
         \A o \in {LastArgs'[1]} :
         \A snap \in {SnapshotBytes(mem, o, LastArgs'[2])} :
         \A grid \in {ret'} :
             /\ DOMAIN grid = 1..2
             /\ \A i \in 0..1 : DOMAIN grid[i + 1] = 1..3
             /\ \A i \in 0..1, j \in 0..2, k \in 0..1 :
                    /\ DOMAIN grid[i + 1][j + 1] = 1..2
                    /\ grid[i + 1][j + 1][k + 1] =
                          from_le([x \in 1..n8q |-> Read(snap, o + (6 * i + 2 * j + k) * n8q + x - 1)])
             /\ {6 * i + 2 * j + k : i \in 0..1, j \in 0..2, k \in 0..1} = 0..11
             /\ \A pos \in 0..11 :
                    shift(o, Snapshot(snap), pos) =
                        [x \in 1..n8q |-> Read(snap, o + pos * n8q + x - 1)]]_vars

\* a read of a computed pairing whose 12 entries are pairwise different
C5_Witness ==
    /\ LastOp = "get_f12"
    /\ status = "running"
    /\ LastArgs[1] = p_p
    /\ ret # None
    /\ Cardinality({ret[i][j][k] : i \in 1..2, j \in 1..3, k \in 1..2}) = 12

\* ------------------------------------------------------------ C6
\* C6: get_f12 at an offset whose 12 slots do not fit in the memory (within
\* 48 bytes of its end, or anywhere a slot range passes the end, or negative)
\* fails and returns no decoded value.
C6_OutOfRangeFails ==
    (LastOp = "get_f12" /\ ~F12InRange(LastArgs[1])) =>
        (status = "panicked" /\ ret = None)

\* a direct read one byte less than a slot before the end fails
C6_Witness ==
    /\ LastOp = "get_f12"
    /\ LastArgs = <<MemorySize - n8q + 1, TRUE>>
    /\ status = "panicked"
    /\ ret = None

\* ------------------------------------------------------------ C9
\* The 48 bytes of 0-based slot n of the element at offset o.
SlotBytes(m, o, n) == Bytes(m, o + n * n8q, n8q)

\* C9: g1() and g2() call no engine operation, leave every byte of the memory
\* unchanged, and return the slots 0, 1, 2 at P_G1, and the six slots at P_G2
\* as three coordinates, coordinate c holding slots 2c and 2c + 1.
C9_GeneratorReadersPure ==
    [][/\ LastOp' = "g1" =>
            /\ status' = "running"
            /\ mem' = mem
            /\ EngineCalls(log') = EngineCalls(log)
            /\ ret' = << SlotBytes(mem, P_G1, 0), SlotBytes(mem, P_G1, 1), SlotBytes(mem, P_G1, 2) >>
       /\ LastOp' = "g2" =>
            /\ status' = "running"
            /\ mem' = mem
            /\ EngineCalls(log') = EngineCalls(log)
            /\ DOMAIN ret' = 1..3
            /\ \A c \in 0..2 :
                   ret'[c + 1] = << << SlotBytes(mem, P_G2, 2 * c), SlotBytes(mem, P_G2, 2 * c + 1) >> >>]_vars

\* g2 has run after another reader, on the generators' bytes
C9_Witness ==
    /\ LastOp = "g2"
    /\ status = "running"
    /\ calls = 2
    /\ Len(log) = 2
    /\ ret[1][1][1] # ret[2][1][1]
    /\ ret[1][1][2] = SlotBytes(mem, P_G2, 1)

\* ------------------------------------------------------------ C4
Call_g1m_neg == <<"g1m_neg", <<P_G1, p_n_g1>>>>
Call_g2m_neg == <<"g2m_neg", <<P_G2, p_n_g2>>>>
Call_pairing_p == <<"bls12381_pairing", <<P_G1, P_G2, p_p>>>>
Call_pairing_q == <<"bls12381_pairing", <<p_n_g1, P_G2, p_q>>>>
Call_pairing_r == <<"bls12381_pairing", <<P_G1, p_n_g2, p_r>>>>
Call_conjugate == <<"ftm_conjugate", <<p_p, p_p>>>>

IsPrefix(a, b) == Len(a) <= Len(b) /\ a = SubSeq(b, 1, Len(a))

\* The order the claim states: the conjugation after the three pairings.
ClaimedOrder ==
    << Call_g1m_neg, Call_g2m_neg, Call_pairing_p, Call_pairing_q, Call_pairing_r, Call_conjugate >>
    \o BridgeEvents(p_p) \o BridgeEvents(p_q) \o BridgeEvents(p_r)

\* The order of lines 218 to 226: the conjugation right after the first pairing.
CodeOrder ==
    << Call_g1m_neg, Call_g2m_neg, Call_pairing_p, Call_conjugate, Call_pairing_q, Call_pairing_r >>
    \o BridgeEvents(p_p) \o BridgeEvents(p_q) \o BridgeEvents(p_r)

\* C4 as stated: the harness negates the two generators, computes the three
\* pairings, only then conjugates the first result, then decodes; no pairing
\* call follows the conjugation.
C4_ConjugateAfterAllPairings ==
    prog = Test =>
        /\ IsPrefix(log, ClaimedOrder)
        /\ \A m, n \in 1..Len(log) :
               (m < n /\ log[m][1] = "ftm_conjugate") => log[n][1] # "bls12381_pairing"

\* C4 as amended: the harness negates the two generators, computes
\* pairing(P,Q) into p_p, conjugates p_p in place, computes pairing(-P,Q) into
\* p_q and pairing(P,-Q) into p_r, and only then decodes p_p, p_q, p_r; the
\* conjugation follows the first pairing and precedes every decode, and the
\* two pairings after it write other offsets than p_p.
C4_ConjugateAfterFirstPairing ==
    prog = Test =>
        /\ IsPrefix(log, CodeOrder)
        /\ pc >= 227 => log = CodeOrder
        /\ \A m, n \in 1..Len(log) :
               (m < n /\ log[m] = Call_conjugate /\ log[n][1] = "bls12381_pairing")
                   => log[n][2][3] # p_p

C4_Witness ==
    /\ prog = Test
    /\ pc = 229
    /\ log = CodeOrder
    /\ log[4] = Call_conjugate
    /\ log[5][1] = "bls12381_pairing"

\* ------------------------------------------------------------ C10
HarnessRegions ==
    { <<P_G1, G1Bytes>>, <<P_G2, G2Bytes>>, <<p_n_g1, G1Bytes>>, <<p_n_g2, G2Bytes>>,
      <<p_p, F12Bytes>>, <<p_q, F12Bytes>>, <<p_r, F12Bytes>> }

\* written by the engine when it is loaded
LoadTimeRegions == { <<P_G1, G1Bytes>>, <<P_G2, G2Bytes>> }

Reads(c) == EngineReads(c[1], c[2])
Writes(c) == EngineWrites(c[1], c[2])

InPlace(c) == Len(c[2]) = 2 /\ c[2][1] = c[2][2]

\* C10: in paring_is_unitary the seven regions are pairwise disjoint and
\* inside the memory; every region an engine call reads was written before
\* (at load time or by an earlier call); and an engine call that writes over
\* bytes written before and read afterwards is an in-place call: among the
\* harness's own six calls only the conjugation at p_p, the others being the
\* decodes' conversions there and back.
C10_NoClobber ==
    prog = Test =>
        /\ \A a, b \in HarnessRegions : a # b => ~Overlap(a, b)
        /\ \A a \in HarnessRegions : InMemory(a[1], a[2])
        /\ \A c \in {EngineCalls(log)} : \A n \in 1..Len(c) :
               /\ Writes(c[n]) \in HarnessRegions \ LoadTimeRegions
               /\ \A reg \in Reads(c[n]) :
                      \/ reg \in LoadTimeRegions
                      \/ \E m \in 1..(n - 1) : Writes(c[m]) = reg
               /\ ( /\ \/ \E k \in 1..(n - 1) : Overlap(Writes(c[k]), Writes(c[n]))
                       \/ \E reg \in LoadTimeRegions : Overlap(reg, Writes(c[n]))
                    /\ \E j \in (n + 1)..Len(c) : \E reg \in Reads(c[j]) : Overlap(reg, Writes(c[n])) )
                  => /\ InPlace(c[n])
                     /\ n <= 6 => c[n] = Call_conjugate
                     /\ n > 6 => c[n][1] \in {"ftm_fromMontgomery", "ftm_toMontgomery"}

\* the run is over; its fourth call wrote over the first pairing's result,
\* which the first decode read afterwards
C10_Witness ==
    /\ prog = Test
    /\ status = "passed"
    /\ Len(EngineCalls(log)) = 12
    /\ EngineCalls(log)[4] = Call_conjugate
    /\ Writes(EngineCalls(log)[3]) = Writes(EngineCalls(log)[4])
    /\ Writes(EngineCalls(log)[4]) \in Reads(EngineCalls(log)[7])

\* ------------------------------------------------------------ C7
ImageLoads(e) == e.readable /\ e.wellformed /\ e.memory_ok /\ e.link_ok

\* C7 as stated: from_file returns an error for an unreadable or malformed
\* image, a memory that cannot be created, or an absent required export; so
\* once it has returned a handle no call fails for want of an export.
C7_ConstructionRejectsBadImage ==
    /\ (LastOp = "from_file" /\ (~ImageLoads(env) \/ env.exports # Exports)) => status = "error"
    /\ (status = "panicked" /\ LastOp # "from_file") =>
           \A name \in Exports : name \in env.exports

\* ------------------------------------------------------------ C8
SlotWidth(v) == Len(v) <= n8q

\* C8 as stated: to_le gives exactly 48 bytes for every v < 2^384, fails for
\* every v >= 2^384, and from_le(to_le(v)) = v.
C8_EncodeIsFixedWidth ==
    (prog = "codec" /\ LastOp \in {"to_le", "from_le"} /\ str # <<>>) =>
        \A v \in {parse(str)} :
            /\ SlotWidth(v) => (status # "panicked" /\ Len(buf) = n8q)
            /\ ~SlotWidth(v) => status = "panicked"
            /\ LastOp = "from_le" => val = v

====
